---- MODULE Spec2Model ----
(***************************************************************************)
(* Model of the e-ink scheduler (src/core/scheduler.py), the configuration *)
(* object it shares with the web handlers (src/core/config.py,             *)
(* src/web/routes.py) and the render callback (src/core/renderer.py).      *)
(*                                                                         *)
(* One worker thread runs Scheduler._loop.  Every read or write of shared  *)
(* state (the two threading.Event objects, Config._data, config.json) is   *)
(* one step of the worker, so the handler threads interleave with it at    *)
(* exactly the places the Python code allows.  Time is counted in seconds  *)
(* and only passes while the worker is blocked in Event.wait(timeout).     *)
(***************************************************************************)
EXTENDS Integers, Sequences, FiniteSets, TLC

\* ------------------------------------------------------------------ bounds
\* Number of ForceRefresh() calls that may be pending (made and not yet
\* consumed by the worker) at one time.
MaxPending == 2
\* Number of POST /settings requests in one behaviour.
MaxPosts == 1
\* Granularity of the clock, in seconds.
TickSeconds == 600

\* --------------------------------------------------------- program constants
\* scheduler.py:40 and :56 convert minutes to the seconds Event.wait takes.
SecondsPerMinute == 60
\* config.py:47  self.get("display", "refresh_interval_minutes", default=30)
DefaultRefreshMinutes == 30
\* scheduler.py:51  entry.get("duration_minutes", 5)
DefaultDurationMinutes == 5

Min(a, b) == IF a < b THEN a ELSE b

\* ------------------------------------------------------------- Config (dict)
\* Config._data is a dict: a function from the keys that are present.
\* The nested "display" dict is flattened to its key refresh_interval_minutes.
EmptyDict == [k \in {} |-> 0]

\* Config.get(*keys, default): the value under the key, or the default.
Get(d, k, default) == IF k \in DOMAIN d THEN d[k] ELSE default

\* Config.set(value, *keys): d[keys[-1]] = value.
Set(d, k, v) == [x \in (DOMAIN d) \cup {k} |-> IF x = k THEN v ELSE d[x]]

refresh_minutes(d) == Get(d, "refresh_interval_minutes", DefaultRefreshMinutes)

active_module(d) == Get(d, "active_module", "calendar")

rotation(d) == Get(d, "rotation", <<>>)

rotation_enabled(d) == Len(rotation(d)) > 1

\* Config.timezone; the nested "display" dict is flattened here too.
timezone(d) == Get(d, "timezone", "Europe/Brussels")

\* Config.module_settings(name): get("modules", name, default={}).
module_settings(d, name) == Get(Get(d, "modules", EmptyDict), name, EmptyDict)

\* A rotation entry is a dict with key "module" and, usually, "duration_minutes".
Entry(m, dur) == [module |-> m, duration_minutes |-> dur]

\* scheduler.py:50  entry.get("module", "")
EntryModule(e) == Get(e, "module", "")

\* scheduler.py:51  int(entry.get("duration_minutes", 5))
EntryDuration(e) == Get(e, "duration_minutes", DefaultDurationMinutes)

\* config.json: absent, or present.  A present file holds the JSON text of a
\* dict, or text that is no JSON document (valid = FALSE).
NoFile == [exists |-> FALSE, valid |-> FALSE, content |-> EmptyDict]
FileWith(d) == [exists |-> TRUE, valid |-> TRUE, content |-> d]

\* config.py:18  open(CONFIG_PATH, "w") truncates the file: it exists and is
\* empty until json.dump has written the document.
Truncated == [exists |-> TRUE, valid |-> FALSE, content |-> EmptyDict]

\* ----------------------------------------------------------------- modules
\* app.py:19-26  the names MODULE_REGISTRY holds a provider for.
MODULE_REGISTRY ==
    {"photos", "calendar", "tasks", "dashboard", "habits", "fitness"}

\* default_settings() of each provider.
DefaultSettings(name) ==
    CASE name = "photos" -> [photo_dir |-> "uploads", display_mode |-> "fill"]
      [] name = "calendar" -> [ics_url |-> "", days_ahead |-> 7,
                               max_events |-> 8]
      [] name = "tasks" -> [list_id |-> "@default", max_tasks |-> 15,
                            show_completed |-> ""]
      [] name = "dashboard" -> [weather_location |-> "", latitude |-> "",
                                longitude |-> "", message_font |-> "medium"]
      [] name = "habits" -> [habitica_user_id |-> "",
                             habitica_api_token |-> "", max_display |-> 8]
      [] name = "fitness" -> [weight_unit |-> "kg", step_goal |-> "10000"]
      [] OTHER -> EmptyDict

\* ----------------------------------------------------------------- Renderer
\* Mutant of ResolveSettings: stored settings are passed on as they are, the
\* provider's defaults are never substituted.
ResolveSettings_NoDefault(d, name) ==
    LET withTz == Set(module_settings(d, name), "_timezone", timezone(d))
    IN  IF name = "tasks"
        THEN Set(withTz, "_habitica_settings", module_settings(d, "habits"))
        ELSE withTz

\* renderer.py:23-28  the settings dict handed to provider.render: the stored
\* settings or, when they are empty, default_settings(); then the injected
\* keys.
ResolveSettings(d, name) ==
    LET stored == module_settings(d, name)
        base == IF DOMAIN stored = {} THEN DefaultSettings(name) ELSE stored
        withTz == Set(base, "_timezone", timezone(d))
    IN  IF name = "tasks"
        THEN Set(withTz, "_habitica_settings", module_settings(d, "habits"))
        ELSE withTz

\* renderer.py:26-28 assign into the dict config.module_settings returned.
\* When the stored settings are not empty that dict is the one inside
\* Config._data, so the injected keys land in the configuration.
AfterResolve(d, name, resolved) ==
    IF DOMAIN module_settings(d, name) = {} THEN d
    ELSE Set(d, "modules", Set(Get(d, "modules", EmptyDict), name, resolved))

\* routes.py:175-183  the settings dict preview_module hands to
\* provider.render.
PreviewSettings(d, name) ==
    LET stored == module_settings(d, name)
        base == IF DOMAIN stored = {} THEN DefaultSettings(name) ELSE stored
        withTz == Set(base, "_timezone", timezone(d))
        withHab == IF name = "tasks"
                   THEN Set(withTz, "_habitica_settings",
                            module_settings(d, "habits"))
                   ELSE withTz
        fitbit == Get(d, "fitbit", EmptyDict)
    IN  IF name = "fitness"
        THEN Set(Set(withHab, "_fitbit_client_id",
                     Get(fitbit, "client_id", "")),
                 "_fitbit_client_secret", Get(fitbit, "client_secret", ""))
        ELSE withHab

\* One call made during a render cycle: to the provider (default_settings,
\* render) or to the display (init, show, sleep), what it was given, and
\* whether it returned (ok) or raised.
Call(op, arg, ok) == [op |-> op, arg |-> arg, ok |-> ok]

\* A trace of calls ended with a call that raised.
Failed(trace) == trace # <<>> /\ ~trace[Len(trace)].ok

\* Faults of the display during one render cycle: none, or one of its
\* operations raises, on its first call only or on every call.
NoFault == [op |-> "none", always |-> FALSE]
SinkFaults ==
    {NoFault} \cup [op : {"init", "show", "sleep"}, always : BOOLEAN]

\* Whether the display call op raises, given the calls made before it.
Fails(fault, op, before) ==
    /\ fault.op = op
    /\ \/ fault.always
       \/ \A k \in 1..Len(before) : before[k].op # op

\* renderer.py:36-38 and :52-54  display.init(); display.show(x);
\* display.sleep(): the calls made, up to and including the first that raises.
ShowSequence(before, what, fault) ==
    LET i == Call("init", "", ~Fails(fault, "init", before))
        t1 == Append(before, i)
        s == Call("show", what, ~Fails(fault, "show", t1))
        t2 == Append(t1, s)
        z == Call("sleep", "", ~Fails(fault, "sleep", t2))
        t3 == Append(t2, z)
    IN  IF ~i.ok THEN t1
        ELSE IF ~s.ok THEN t2
        ELSE t3

\* renderer.py:44-54  _show_error: the error bitmap goes through the same
\* three calls, outside any try block.
ShowError(before, fault) == ShowSequence(before, "error", fault)

\* Mutant of ResolutionCalls: the settings are resolved before the registry
\* is consulted.
ResolutionCalls_BeforeLookup(d, name) ==
    IF DOMAIN module_settings(d, name) = {}
    THEN <<Call("default_settings", "", TRUE)>>
    ELSE <<>>

\* renderer.py:16-25  the provider calls made before the try block: none for
\* a name the registry lacks, default_settings() when the stored settings of
\* a registered module are empty.
ResolutionCalls(d, name) ==
    IF name \notin MODULE_REGISTRY THEN <<>>
    ELSE IF DOMAIN module_settings(d, name) = {}
    THEN <<Call("default_settings", "", TRUE)>>
    ELSE <<>>

\* renderer.py:33-38  the try block: provider.render, then the display.
TryBlock(before, providerOk, fault) ==
    LET r == Append(before, Call("render", "", providerOk))
    IN  IF providerOk THEN ShowSequence(r, "image", fault) ELSE r

\* Mutant of render_and_display: the try block has no except clause.
render_and_display_NoExcept(known, before, providerOk, fault) ==
    IF ~known THEN ShowError(before, fault)
    ELSE TryBlock(before, providerOk, fault)

\* renderer.py:18-21 and :33-42  the calls render_and_display makes after the
\* settings are resolved.  It raises iff the last of them raised: that call
\* is then one of _show_error, which nothing guards.
render_and_display(known, before, providerOk, fault) ==
    IF ~known THEN ShowError(before, fault)
    ELSE LET t == TryBlock(before, providerOk, fault)
         IN  IF Failed(t) THEN ShowError(t, fault) ELSE t

\* routes.py:171-192  the calls preview_module makes after the settings are
\* resolved: none for a name the registry lacks (404), otherwise
\* provider.render; the display is not called, whatever render does.
preview_module(known, before, providerOk) ==
    IF ~known THEN before
    ELSE Append(before, Call("render", "", providerOk))

\* ------------------------------------------------------------------- inputs
\* Forms a POST /settings can submit: the refresh_minutes field, the
\* rotation list built from the rotation_module/rotation_duration arrays, and
\* the timezone field.
SettingsForms ==
    { [refresh_minutes |-> 1, rotation |-> <<Entry("photos", 5)>>,
       timezone |-> "UTC"] }

\* Names a POST /preview_module/<name> can carry.
PreviewNames == {"fitness", "weather"}

\* Contents of config.json when the process starts.  The file is what earlier
\* requests and the user's editor left: a duration may be 0 (the form field is
\* free text, routes.py:72) and a module name need not be registered
\* ("weather").
InitFiles ==
    { NoFile,
      FileWith([refresh_interval_minutes |-> 20, rotation |-> <<>>,
                active_module |-> "photos",
                modules |-> [photos |-> [display_mode |-> "fit"]]]),
      FileWith([refresh_interval_minutes |-> 1, active_module |-> "calendar",
                rotation |-> <<Entry("calendar", 1), Entry("photos", 20),
                               [module |-> "tasks"]>>]),
      FileWith([refresh_interval_minutes |-> 20, active_module |-> "weather",
                timezone |-> "Europe/Brussels",
                rotation |-> <<Entry("weather", 1), Entry("calendar", 0)>>]) }

\* -------------------------------------------------------------------- state
VARIABLES
    stop_event,     \* Scheduler._stop_event flag
    force_event,    \* Scheduler._force_event flag
    data,           \* Config._data, shared by the worker and the handlers
    file,           \* contents of config.json
    pc,             \* where the worker thread is in _loop/_run_rotation_cycle
    mode,           \* branch taken at scheduler.py:36: "single" or "rotation"
    entries,        \* the list object the for loop of :46 iterates
    idx,            \* 1-based position of that for loop
    module_name,    \* argument of the render callback in progress
    timeout,        \* timeout (seconds) of the Event.wait in progress
    elapsed,        \* seconds spent blocked in the Event.wait in progress
    wake,           \* how the last Event.wait returned: "force", "timeout"
    wokeAt,         \* idx of the rotation entry that wait belonged to
    passLog,        \* modules rendered so far in the current rotation pass
    callsPending,   \* ForceRefresh() calls made since the last Event.clear()
    minutesRead,    \* minutes value the timeout in progress was computed from
    settings,       \* settings dict of the render_and_display in progress
    calls,          \* provider and display calls of the last render cycle
    loads,          \* Config.load() calls of the current while iteration
    forcedAt,       \* value of elapsed when the flag that woke the wait was set
    batchWakes,     \* early wakes since the force flag was last seen lowered
    stopDuringWait, \* Stop() was called while the worker was blocked in a wait
    rendersAfterStop, \* render callback invocations begun since Stop() was called
    ui,             \* POST /settings handler: its position and form data
    posts,          \* number of POST /settings requests made
    preview         \* POST /preview_module handler: its position and locals

schedVars == <<stop_event, force_event, pc, mode, entries, idx, module_name,
               timeout, elapsed, wake, wokeAt, passLog, callsPending,
               minutesRead, forcedAt, batchWakes, stopDuringWait, rendersAfterStop,
               settings,
               calls, loads>>
cfgVars == <<data, file, ui, posts>>
prevVars == <<preview>>
vars == <<schedVars, cfgVars, prevVars>>
locals == <<mode, entries, idx, module_name, timeout, elapsed, wake, wokeAt,
            passLog, minutesRead>>
history == <<forcedAt, batchWakes, stopDuringWait, rendersAfterStop>>
renderVars == <<settings, calls>>

\* Config.load(): if the file exists, replace _data by its content;
\* otherwise _data stays as it is.
load(d, f) == IF f.exists THEN f.content ELSE d

\* config.py:15  json.load raises when the file holds no JSON document.
LoadRaises(f) == f.exists /\ ~f.valid

UiIdle == [at |-> "idle"]
PreviewIdle == [at |-> "idle"]

Init ==
    /\ stop_event = FALSE
    /\ force_event = FALSE
    /\ file \in InitFiles
    /\ data = load(EmptyDict, file)
    /\ pc = "not_started"
    /\ mode = "single"
    /\ entries = <<>>
    /\ idx = 0
    /\ module_name = ""
    /\ timeout = 0
    /\ elapsed = 0
    /\ wake = "none"
    /\ wokeAt = 0
    /\ passLog = <<>>
    /\ callsPending = 0
    /\ minutesRead = 0
    /\ forcedAt = 0
    /\ batchWakes = 0
    /\ stopDuringWait = FALSE
    /\ rendersAfterStop = 0
    /\ ui = UiIdle
    /\ posts = 0
    /\ preview = PreviewIdle
    /\ settings = EmptyDict
    /\ calls = <<>>
    /\ loads = 0

\* ---------------------------------------------------------------- Scheduler
\* Mutant of start: a scheduler whose thread has ended can be started again.
start_AfterExit ==
    /\ pc \in {"not_started", "exited"}
    /\ pc' = "loop_check"
    /\ UNCHANGED <<stop_event, force_event, locals, callsPending, history,
                   cfgVars, prevVars, renderVars, loads>>

\* Scheduler.start(): the thread begins _loop.
start ==
    /\ pc = "not_started"
    /\ pc' = "loop_check"
    /\ UNCHANGED <<stop_event, force_event, locals, callsPending, history,
                   cfgVars, prevVars, renderVars, loads>>

\* Scheduler.force_refresh(): Event.set() on the force event.
force_refresh ==
    /\ callsPending < MaxPending
    /\ callsPending' = callsPending + 1
    /\ force_event' = TRUE
    /\ forcedAt' = IF pc = "blocked" /\ ~force_event THEN elapsed ELSE forcedAt
    /\ UNCHANGED <<stop_event, pc, locals, batchWakes, stopDuringWait,
                   rendersAfterStop,
                   cfgVars, prevVars, renderVars, loads>>

\* Scheduler.stop(): Event.set() on the stop event.
stop ==
    /\ ~stop_event
    /\ stop_event' = TRUE
    /\ stopDuringWait' = (pc = "blocked")
    /\ UNCHANGED rendersAfterStop
    /\ UNCHANGED <<force_event, pc, locals, callsPending, forcedAt,
                   batchWakes, cfgVars, prevVars, renderVars, loads>>

\* The thread has ended: what it observed of its last wait is gone with it.
ThreadEnds ==
    /\ timeout' = 0
    /\ elapsed' = 0
    /\ wake' = "none"
    /\ wokeAt' = 0
    /\ minutesRead' = 0
    /\ forcedAt' = 0
    /\ loads' = 0

\* scheduler.py:33  while not self._stop_event.is_set()
Loop_While ==
    /\ pc = "loop_check"
    /\ IF stop_event
       THEN /\ pc' = "exited"
            /\ ThreadEnds
       ELSE /\ pc' = "load"
            /\ UNCHANGED <<timeout, elapsed, wake, wokeAt, minutesRead,
                           forcedAt, loads>>
    /\ UNCHANGED <<stop_event, force_event, mode, entries, idx, module_name,
                   passLog, callsPending, batchWakes, stopDuringWait,
                   rendersAfterStop,
                   cfgVars, prevVars, renderVars>>

\* What _loop does with an exception of Config.load: scheduler.py:32-42 has
\* no try/except, so the exception ends the thread.
OnLoadError == "load_failed"

\* scheduler.py:34  self._config.load()
Loop_Load ==
    /\ pc = "load"
    /\ IF LoadRaises(file)
       THEN /\ pc' = OnLoadError
            /\ ThreadEnds
            /\ UNCHANGED data
       ELSE /\ pc' = "decide"
            /\ data' = load(data, file)
            /\ loads' = loads + 1
            /\ UNCHANGED <<timeout, elapsed, wake, wokeAt, minutesRead,
                           forcedAt>>
    /\ UNCHANGED <<stop_event, force_event, mode, entries, idx, module_name,
                   passLog, callsPending, batchWakes, stopDuringWait,
                   rendersAfterStop,
                   file, ui, posts, prevVars, renderVars>>

\* scheduler.py:36  if self._config.rotation_enabled
Loop_If ==
    /\ pc = "decide"
    /\ mode' = IF rotation_enabled(data) THEN "rotation" ELSE "single"
    /\ pc' = IF rotation_enabled(data) THEN "rot_iter" ELSE "render"
    /\ UNCHANGED <<stop_event, force_event, entries, idx, module_name,
                   timeout, elapsed, wake, wokeAt, passLog, minutesRead,
                   callsPending, history, cfgVars, prevVars, renderVars, loads>>

\* scheduler.py:46  for entry in self._config.rotation: the list object is
\* read once; the loop then iterates that object.
Rotation_Iter ==
    /\ pc = "rot_iter"
    /\ entries' = rotation(data)
    /\ idx' = 1
    /\ passLog' = <<>>
    /\ pc' = "rot_next"
    /\ UNCHANGED <<stop_event, force_event, mode, module_name, timeout,
                   elapsed, wake, wokeAt, minutesRead, callsPending, history,
                   cfgVars, prevVars, renderVars, loads>>

\* Mutant of Rotation_Next: the for loop lacks the stop check.
Rotation_Next_NoStopCheck ==
    /\ pc = "rot_next"
    /\ pc' = IF idx > Len(entries) THEN "loop_check" ELSE "render"
    /\ UNCHANGED <<stop_event, force_event, locals, callsPending, history,
                   cfgVars, prevVars, renderVars, loads>>

\* scheduler.py:46-48  next entry of the for loop, then the stop check.
\* The loop ends when the list is exhausted or stop is set (break); the
\* function then returns to _loop and its locals are gone.
Rotation_Next ==
    /\ pc = "rot_next"
    /\ IF idx > Len(entries) \/ stop_event
       THEN /\ pc' = "loop_check"
            /\ entries' = <<>>
            /\ idx' = 0
            /\ passLog' = <<>>
            /\ loads' = 0
       ELSE /\ pc' = "render"
            /\ UNCHANGED <<entries, idx, passLog, loads>>
    /\ UNCHANGED <<stop_event, force_event, mode, module_name, timeout,
                   elapsed, wake, wokeAt, minutesRead, callsPending, history,
                   cfgVars, prevVars, renderVars>>

\* Mutant of RenderArgument: the for loop indexes the configured list anew
\* for every entry instead of iterating the list object it started with.
RenderArgument_LiveList ==
    IF mode = "rotation"
    THEN IF idx <= Len(rotation(data))
         THEN EntryModule(rotation(data)[idx])
         ELSE ""
    ELSE active_module(data)

\* The module the render callback is called with: scheduler.py:39 reads
\* active_module from the shared config, :50 takes the entry's module.
RenderArgument ==
    IF mode = "rotation" THEN EntryModule(entries[idx])
    ELSE active_module(data)

\* scheduler.py:39 / :53  self._render_module(...) is entered:
\* renderer.py:16-31 looks the module up and resolves its settings; the
\* provider's render (renderer.py:35) runs while pc = "rendering".
Render_Call ==
    /\ pc = "render"
    /\ module_name' = RenderArgument
    /\ passLog' = IF mode = "rotation" THEN Append(passLog, RenderArgument)
                  ELSE passLog
    /\ settings' = IF RenderArgument \in MODULE_REGISTRY
                   THEN ResolveSettings(data, RenderArgument)
                   ELSE EmptyDict
    /\ data' = IF RenderArgument \in MODULE_REGISTRY
               THEN AfterResolve(data, RenderArgument, settings')
               ELSE data
    /\ calls' = ResolutionCalls(data, RenderArgument)
    /\ rendersAfterStop' = IF stop_event THEN rendersAfterStop + 1
                           ELSE rendersAfterStop
    /\ pc' = "rendering"
    /\ UNCHANGED <<stop_event, force_event, mode, entries, idx, timeout,
                   elapsed, wake, wokeAt, minutesRead, callsPending,
                   forcedAt, batchWakes, stopDuringWait, file, ui, posts,
                   prevVars, loads>>

\* What _loop does with an exception of the render callback: scheduler.py
\* :32-58 has no try/except, so the exception ends the thread.
OnRenderError == "crashed"

\* The render callback returns, or raises.  With record the calls it made
\* are kept in calls for the claims about the renderer to read; without it
\* only whether it raised is kept.
Render_Return(record) ==
    /\ pc = "rendering"
    /\ \E providerOk \in BOOLEAN, fault \in SinkFaults :
          LET made == render_and_display(module_name \in MODULE_REGISTRY,
                                         calls, providerOk, fault)
          IN
          /\ calls' = IF record THEN made ELSE <<>>
          /\ IF Failed(made)
             THEN /\ pc' = OnRenderError
                  /\ ThreadEnds
                  /\ entries' = <<>>
                  /\ idx' = 0
                  /\ passLog' = <<>>
             ELSE /\ pc' = "interval"
                  /\ UNCHANGED <<timeout, elapsed, wake, wokeAt, minutesRead,
                                 forcedAt, entries, idx, passLog, loads>>
    /\ settings' = EmptyDict
    /\ UNCHANGED <<stop_event, force_event, mode, module_name, callsPending,
                   batchWakes, stopDuringWait,
                   rendersAfterStop, cfgVars, prevVars>>

\* Mutant of WaitMinutes: an entry whose module the registry lacks gets no
\* dwell.
WaitMinutes_NoDwellForUnknown ==
    IF mode = "rotation"
    THEN IF EntryModule(entries[idx]) \in MODULE_REGISTRY
         THEN EntryDuration(entries[idx])
         ELSE 0
    ELSE refresh_minutes(data)

\* scheduler.py:40 / :51  the minutes the wait is computed from: single mode
\* reads the shared config here, after the render.
WaitMinutes ==
    IF mode = "rotation" THEN EntryDuration(entries[idx])
    ELSE refresh_minutes(data)

\* Mutant of WaitTimeout: after a forced render the wait only runs for what
\* was left of the interrupted timeout.
WaitTimeout_Remaining ==
    IF mode = "single" /\ wake = "force"
    THEN WaitMinutes * SecondsPerMinute - elapsed
    ELSE WaitMinutes * SecondsPerMinute

\* scheduler.py:40 / :56  the timeout handed to Event.wait, in seconds.
WaitTimeout == WaitMinutes * SecondsPerMinute

\* scheduler.py:40 / :51  compute the timeout.
Wait_Interval ==
    /\ pc = "interval"
    /\ timeout' = WaitTimeout
    /\ minutesRead' = WaitMinutes
    /\ wake' = "none"
    /\ wokeAt' = 0
    /\ forcedAt' = 0
    /\ module_name' = ""
    /\ calls' = <<>>
    /\ pc' = "wait"
    /\ UNCHANGED <<stop_event, force_event, mode, entries, idx, settings,
                   elapsed, passLog, callsPending, batchWakes, stopDuringWait,
                   rendersAfterStop,
                   cfgVars, prevVars, loads>>

\* Event.wait(timeout) is entered: it returns True at once when the flag is
\* set, and blocks otherwise.
Wait_Enter ==
    /\ pc = "wait"
    /\ elapsed' = 0
    /\ IF force_event
       THEN /\ pc' = "clear"
            /\ wake' = "force"
            /\ wokeAt' = IF mode = "rotation" THEN idx ELSE 0
            /\ batchWakes' = batchWakes + 1
       ELSE /\ pc' = "blocked"
            /\ UNCHANGED <<wake, wokeAt, batchWakes>>
    /\ UNCHANGED <<stop_event, force_event, mode, entries, idx, module_name,
                   timeout, passLog, minutesRead, callsPending, forcedAt,
                   stopDuringWait,
                   rendersAfterStop, cfgVars, prevVars, renderVars, loads>>

\* What ends a blocked Event.wait early: scheduler.py:41 and :56 wait on the
\* force event only.
WaitSignalled == force_event

\* Mutant of Deadline: a single-mode wait follows the configured interval
\* as it changes.
Deadline_LiveConfig ==
    IF mode = "single" THEN refresh_minutes(data) * SecondsPerMinute
    ELSE timeout

\* The time at which the blocked wait gives up: the timeout it was called with.
Deadline == timeout

\* Time passes while the worker is blocked and nothing can wake it yet.
Tick ==
    /\ pc = "blocked"
    /\ ~WaitSignalled
    /\ elapsed < Deadline
    /\ elapsed' = Min(elapsed + TickSeconds, Deadline)
    /\ UNCHANGED <<stop_event, force_event, pc, mode, entries, idx,
                   module_name, timeout, wake, wokeAt, passLog, minutesRead,
                   callsPending, history, cfgVars, prevVars, renderVars, loads>>

\* Event.wait returns True: the flag was set while the worker was blocked.
Wait_Signalled ==
    /\ pc = "blocked"
    /\ WaitSignalled
    /\ pc' = "clear"
    /\ wake' = "force"
    /\ wokeAt' = IF mode = "rotation" THEN idx ELSE 0
    /\ batchWakes' = batchWakes + 1
    /\ UNCHANGED <<stop_event, force_event, mode, entries, idx, module_name,
                   timeout, elapsed, passLog, minutesRead, callsPending,
                   forcedAt, stopDuringWait,
                   rendersAfterStop, cfgVars, prevVars, renderVars, loads>>

\* Mutant of Wait_TimedOut: the for loop advances past the next entry.
Wait_TimedOut_SkipsEntry ==
    /\ pc = "blocked"
    /\ ~force_event
    /\ elapsed >= timeout
    /\ wake' = "timeout"
    /\ wokeAt' = IF mode = "rotation" THEN idx ELSE 0
    /\ idx' = IF mode = "rotation" THEN idx + 2 ELSE idx
    /\ pc' = IF mode = "rotation" THEN "rot_next" ELSE "loop_check"
    /\ loads' = IF mode = "rotation" THEN loads ELSE 0
    /\ UNCHANGED <<stop_event, force_event, mode, entries, module_name,
                   timeout, elapsed, passLog, minutesRead, callsPending,
                   history, cfgVars, prevVars, renderVars>>

\* Mutant of Wait_TimedOut: the configuration is reloaded before every entry
\* of a rotation pass.
Wait_TimedOut_Reloads ==
    /\ pc = "blocked"
    /\ ~force_event
    /\ elapsed >= timeout
    /\ wake' = "timeout"
    /\ wokeAt' = IF mode = "rotation" THEN idx ELSE 0
    /\ idx' = IF mode = "rotation" THEN idx + 1 ELSE idx
    /\ pc' = IF mode = "rotation" THEN "rot_next" ELSE "loop_check"
    /\ data' = IF mode = "rotation" /\ ~LoadRaises(file)
               THEN load(data, file) ELSE data
    /\ loads' = IF mode = "rotation" THEN loads + 1 ELSE 0
    /\ UNCHANGED <<stop_event, force_event, mode, entries, module_name,
                   timeout, elapsed, passLog, minutesRead, callsPending,
                   history, file, ui, posts, prevVars, renderVars>>

\* Mutant of Wait_TimedOut: the for loop goes on to the next entry without
\* the stop check of its first statement.
Wait_TimedOut_NoStopCheck ==
    /\ pc = "blocked"
    /\ ~force_event
    /\ elapsed >= timeout
    /\ wake' = "timeout"
    /\ wokeAt' = IF mode = "rotation" THEN idx ELSE 0
    /\ idx' = IF mode = "rotation" THEN idx + 1 ELSE idx
    /\ pc' = IF mode = "rotation"
             THEN IF idx < Len(entries) THEN "render" ELSE "rot_next"
             ELSE "loop_check"
    /\ loads' = IF mode = "rotation" THEN loads ELSE 0
    /\ UNCHANGED <<stop_event, force_event, mode, entries, module_name,
                   timeout, elapsed, passLog, minutesRead, callsPending,
                   history, cfgVars, prevVars, renderVars>>

\* Event.wait returns False: the timeout ran out.  Single mode goes back to
\* the while, rotation mode to the next entry of the for loop.
Wait_TimedOut ==
    /\ pc = "blocked"
    /\ ~WaitSignalled
    /\ elapsed >= Deadline
    /\ wake' = "timeout"
    /\ wokeAt' = IF mode = "rotation" THEN idx ELSE 0
    /\ idx' = IF mode = "rotation" THEN idx + 1 ELSE idx
    /\ pc' = IF mode = "rotation" THEN "rot_next" ELSE "loop_check"
    /\ loads' = IF mode = "rotation" THEN loads ELSE 0
    /\ UNCHANGED <<stop_event, force_event, mode, entries, module_name,
                   timeout, elapsed, passLog, minutesRead, callsPending,
                   history, cfgVars, prevVars, renderVars>>

\* Mutant of EventClear: the event counts its set() calls and clear() takes
\* one of them.
EventClear_PerCall(flag) == callsPending > 1

\* Mutant of EventClear: the flag is left as it is.
EventClear_Noop(flag) == flag

\* Event.clear() of the force event.
EventClear(flag) == FALSE

\* Mutant of Force_Clear: no break after the clear, so a forced rotation
\* pass resumes with the next entry.
Force_Clear_NoBreak ==
    /\ pc = "clear"
    /\ force_event' = FALSE
    /\ callsPending' = 0
    /\ batchWakes' = 0
    /\ pc' = IF mode = "rotation" THEN "rot_next" ELSE "loop_check"
    /\ idx' = IF mode = "rotation" THEN idx + 1 ELSE idx
    /\ loads' = IF mode = "rotation" THEN loads ELSE 0
    /\ UNCHANGED <<stop_event, mode, entries, module_name, timeout, elapsed,
                   wake, wokeAt, passLog, minutesRead, forcedAt,
                   stopDuringWait,
                   rendersAfterStop, cfgVars, prevVars, renderVars>>

\* Mutant of Force_Clear: a forced refresh goes straight to the reload and
\* the render, without the stop check of the while.
Force_Clear_SkipsWhileCheck ==
    /\ pc = "clear"
    /\ force_event' = FALSE
    /\ callsPending' = 0
    /\ batchWakes' = 0
    /\ pc' = "load"
    /\ entries' = <<>>
    /\ idx' = 0
    /\ passLog' = <<>>
    /\ loads' = 0
    /\ UNCHANGED <<stop_event, mode, module_name, timeout, elapsed, wake,
                   wokeAt, minutesRead, forcedAt, stopDuringWait,
                   rendersAfterStop, cfgVars, prevVars, renderVars>>

\* scheduler.py:42 / :57-58  self._force_event.clear(); in rotation mode the
\* break then leaves the for loop.  Both branches return to the while.
Force_Clear ==
    /\ pc = "clear"
    /\ force_event' = EventClear(force_event)
    /\ callsPending' = 0
    /\ batchWakes' = IF force_event' THEN batchWakes ELSE 0
    /\ pc' = "loop_check"
    /\ entries' = <<>>
    /\ idx' = 0
    /\ passLog' = <<>>
    /\ loads' = 0
    /\ UNCHANGED <<stop_event, mode, module_name, timeout, elapsed, wake,
                   wokeAt, minutesRead, forcedAt, stopDuringWait,
                   rendersAfterStop, cfgVars,
                   prevVars, renderVars>>

\* ------------------------------------------------------------ HTTP client
\* The requests that take more than one step come from one browser session,
\* one after the other: such a request starts when no other is being handled.
\* ForceRefresh() and Stop() are single steps and may come at any time.
NoRequestInFlight == ui.at = "idle" /\ preview.at = "idle"

\* ------------------------------------------------------- POST /settings
\* routes.py:60-63  config.set(int(form["refresh_minutes"]), "display",
\* "refresh_interval_minutes"); the rotation list of the form is built
\* locally (:66-73).
Settings_SetRefresh ==
    /\ NoRequestInFlight
    /\ posts < MaxPosts
    /\ \E form \in SettingsForms :
          /\ data' = Set(data, "refresh_interval_minutes",
                         form.refresh_minutes)
          /\ ui' = [at |-> "set_rotation", rotation |-> form.rotation,
                    timezone |-> form.timezone]
    /\ posts' = posts + 1
    /\ UNCHANGED <<schedVars, file, prevVars>>

\* routes.py:74  config.set(rotation, "rotation")
Settings_SetRotation ==
    /\ ui.at = "set_rotation"
    /\ data' = Set(data, "rotation", ui.rotation)
    /\ ui' = [ui EXCEPT !.at = "set_active"]
    /\ UNCHANGED <<schedVars, file, posts, prevVars>>

\* routes.py:77-78  if rotation: config.set(rotation[0]["module"],
\* "active_module")
Settings_SetActive ==
    /\ ui.at = "set_active"
    /\ data' = IF ui.rotation # <<>>
               THEN Set(data, "active_module", ui.rotation[1].module)
               ELSE data
    /\ ui' = [ui EXCEPT !.at = "set_timezone"]
    /\ UNCHANGED <<schedVars, file, posts, prevVars>>

\* routes.py:81-82  config.set(tz, "display", "timezone")
Settings_SetTimezone ==
    /\ ui.at = "set_timezone"
    /\ data' = Set(data, "timezone", ui.timezone)
    /\ ui' = [at |-> "save"]
    /\ UNCHANGED <<schedVars, file, posts, prevVars>>

\* Config.save(): write _data to config.json, creating the file.
save(d) == FileWith(d)

\* routes.py:84  config.save(), config.py:18: the file is opened for
\* writing and is empty from then on.
Settings_SaveOpen ==
    /\ ui.at = "save"
    /\ file' = Truncated
    /\ ui' = [at |-> "dump"]
    /\ UNCHANGED <<schedVars, data, posts, prevVars>>

\* config.py:19  json.dump writes the document and the file is closed.
Settings_SaveDump ==
    /\ ui.at = "dump"
    /\ file' = save(data)
    /\ ui' = UiIdle
    /\ UNCHANGED <<schedVars, data, posts, prevVars>>

Settings ==
    \/ Settings_SetRefresh
    \/ Settings_SetRotation
    \/ Settings_SetActive
    \/ Settings_SetTimezone
    \/ Settings_SaveOpen
    \/ Settings_SaveDump

\* ------------------------------------------------- POST /preview_module
\* routes.py:171-186  the module is looked up; for a name the registry lacks
\* the handler answers 404 at once and is done, otherwise the settings are
\* resolved and module.render(...) is entered on the handler's thread.
Preview_Call ==
    /\ NoRequestInFlight
    /\ \E name \in PreviewNames :
          IF name \notin MODULE_REGISTRY
          THEN UNCHANGED <<preview, data>>
          ELSE /\ preview' = [at |-> "rendering", name |-> name,
                              settings |-> PreviewSettings(data, name)]
               /\ data' = AfterResolve(data, name, PreviewSettings(data, name))
    /\ UNCHANGED <<schedVars, file, ui, posts>>

\* routes.py:186-192  module.render has returned or raised and the handler
\* answers (200 or 500).
Preview_Return ==
    /\ preview.at = "rendering"
    /\ preview' = PreviewIdle
    /\ UNCHANGED <<schedVars, cfgVars>>

Preview ==
    \/ Preview_Call
    \/ Preview_Return

Worker ==
    \/ Loop_While
    \/ Loop_Load
    \/ Loop_If
    \/ Rotation_Iter
    \/ Rotation_Next
    \/ Render_Call
    \/ Render_Return(FALSE)
    \/ Wait_Interval
    \/ Wait_Enter
    \/ Wait_Signalled
    \/ Wait_TimedOut
    \/ Force_Clear

Next ==
    \/ start
    \/ force_refresh
    \/ stop
    \/ Worker
    \/ Tick
    \/ Settings
    \/ Preview

Spec == Init /\ [][Next]_vars

\* The worker thread is scheduled whenever it can run, and time passes.
FairSpec == Spec /\ WF_vars(Worker) /\ WF_vars(Tick)

\* The renderer on its own: the worker renders what the configuration names,
\* the calls of every render cycle are recorded, and nobody forces a refresh,
\* stops the scheduler or asks for a preview.
RenderNext ==
    \/ start
    \/ Settings
    \/ Tick
    \/ Loop_While
    \/ Loop_Load
    \/ Loop_If
    \/ Rotation_Iter
    \/ Rotation_Next
    \/ Render_Call
    \/ Render_Return(TRUE)
    \/ Wait_Interval
    \/ Wait_Enter
    \/ Wait_TimedOut

RenderSpec == Init /\ [][RenderNext]_vars

\* ------------------------------------------------------------------ claims
\* The worker is inside a rotation pass (scheduler.py:46-58).
InPass ==
    /\ mode = "rotation"
    /\ pc \in {"rot_next", "render", "rendering", "interval", "wait",
               "blocked", "clear"}

\* C1: in rotation mode, the first render after a wait that a force refresh
\* ended is entry 0 of the rotation list, whatever entry the worker was
\* dwelling on: the forced pass never continues with the next entry.
C1_ForcedRenderIsEntry0 ==
    (pc = "rendering" /\ mode = "rotation" /\ wake = "force")
        => /\ idx = 1
           /\ module_name = EntryModule(entries[1])
           /\ passLog = <<module_name>>

\* C1 witness: entry 0 is being rendered after a force refresh that ended
\* the dwell of the last entry (index 2) of a three-entry rotation.
C1_Witness ==
    /\ pc = "rendering"
    /\ mode = "rotation"
    /\ wake = "force"
    /\ wokeAt = 3
    /\ forcedAt > 0
    /\ idx = 1

\* C2: within a rotation pass the renders are the entries in list order, each
\* once (the log of the pass is a prefix of the list); every render but the
\* first follows the full dwell of the entry before it; and when the for loop
\* runs out of entries every entry has been rendered.
C2_PassRendersInOrder ==
    /\ InPass =>
          /\ passLog = [k \in 1..Len(passLog) |-> EntryModule(entries[k])]
          /\ Len(passLog) = IF pc \in {"rot_next", "render"}
                            THEN idx - 1 ELSE idx
    /\ (InPass /\ pc = "rendering" /\ idx > 1) =>
          /\ wake = "timeout"
          /\ wokeAt = idx - 1
          /\ elapsed = EntryDuration(entries[idx - 1]) * SecondsPerMinute
    /\ (InPass /\ pc = "rot_next" /\ idx > Len(entries) /\ wake = "timeout")
          => Len(passLog) = Len(entries)

\* C2 witness: a pass over three entries has run to the end of the list with
\* neither stop nor force raised.
C2_Witness ==
    /\ InPass
    /\ pc = "rot_next"
    /\ idx > Len(entries)
    /\ Len(entries) = 3
    /\ passLog = <<"calendar", "photos", "tasks">>
    /\ ~stop_event
    /\ ~force_event

\* C3: an error raised by the render callback never terminates the worker.
C3_RenderErrorKeepsWorkerAlive == pc # "crashed"

\* C4: single-mode render times.  The first render happens before any wait;
\* a render after a wait that timed out happens a full interval (the minutes
\* read for that wait, in seconds) after the previous render, also when that
\* previous render was a forced one; a render after a forced wake happens at
\* the time the force flag was raised, not at the end of the timeout.
C4_SingleModeRenderTimes ==
    (pc = "rendering" /\ mode = "single") =>
        \/ wake = "none" /\ elapsed = 0
        \/ wake = "timeout" /\ wokeAt > 0
        \/ wake = "timeout" /\ wokeAt = 0
              /\ elapsed = minutesRead * SecondsPerMinute
        \/ wake = "force" /\ elapsed = forcedAt /\ elapsed <= timeout

\* C4 witness: a forced single-mode render, the force having been raised part
\* of the way into a 20-minute wait.
C4_Witness ==
    /\ pc = "rendering"
    /\ mode = "single"
    /\ wake = "force"
    /\ wokeAt = 0
    /\ minutesRead = 20
    /\ forcedAt = TickSeconds
    /\ elapsed = forcedAt
    /\ elapsed < timeout

\* The worker positions possible after Stop() arrived during a wait: still
\* blocked, leaving the wait, at a stop check, or out of the loop.
AfterStopInWait == {"blocked", "clear", "rot_next", "loop_check", "exited"}

\* C5: once Stop() has been called while the worker was blocked in a wait,
\* the render callback is not entered again, and the worker exits.
C5_StopDuringWaitEndsWorker ==
    /\ [](stopDuringWait => pc \in AfterStopInWait)
    /\ (stopDuringWait ~> pc = "exited")

\* C5 witness: the worker has exited from rotation mode after a Stop() that
\* arrived during the dwell of an entry.
C5_Witness ==
    /\ stopDuringWait
    /\ pc = "exited"
    /\ mode = "rotation"

\* C6: a Stop() that arrives while the worker is blocked ends the wait: no
\* more of the timeout elapses once the stop signal is set.
C6_StopEndsWait ==
    [][(pc = "blocked" /\ stop_event) => elapsed' = elapsed]_vars

\* C7: at most one provider render is in progress at any time.
C7_RendersSerialized ==
    ~(pc = "rendering" /\ module_name \in MODULE_REGISTRY
        /\ preview.at = "rendering")

\* C8: while the force flag stays raised (from the first of a batch of
\* ForceRefresh() calls until the worker lowers it) the worker is woken early
\* at most once, however many calls the batch holds.
C8_OneWakePerBatch == batchWakes <= 1

\* C8 witness: two ForceRefresh() calls are pending and have woken the worker
\* once.
C8_Witness ==
    /\ pc = "clear"
    /\ callsPending = 2
    /\ batchWakes = 1

\* C9: the force flag is raised only while a ForceRefresh() call made after
\* the last consumption is pending, and a wait returns early only on a raised
\* flag: a consumed request never cuts a later wait short.
C9_NoSpuriousWake ==
    /\ force_event => callsPending >= 1
    /\ pc = "clear" => force_event /\ wake = "force"

\* C9 witness: the worker has consumed a force request that arrived during a
\* wait, and a call made between the wait's return and the clear went with it.
C9_Witness ==
    /\ pc = "loop_check"
    /\ wake = "force"
    /\ forcedAt > 0
    /\ ~force_event
    /\ callsPending = 0

\* C10: a single-mode wait in progress keeps the timeout computed from the
\* minutes read before it began, whatever is written to the configuration
\* meanwhile, and times out after exactly that long; each wait's timeout is
\* computed from the configuration as it is when the wait is set up.
C10_InFlightWaitKeepsInterval ==
    /\ []((pc = "blocked" /\ mode = "single") =>
             /\ Deadline = minutesRead * SecondsPerMinute
             /\ elapsed <= Deadline)
    /\ []((pc = "loop_check" /\ mode = "single" /\ wake = "timeout") =>
             elapsed = minutesRead * SecondsPerMinute)
    /\ [][(pc = "interval" /\ pc' = "wait" /\ mode = "single") =>
             timeout' = refresh_minutes(data) * SecondsPerMinute]_vars

\* C10 witness: a single-mode wait set up for 20 minutes has timed out after
\* 20 minutes although the configured interval was changed to 1 during it.
C10_Witness ==
    /\ pc = "loop_check"
    /\ mode = "single"
    /\ wake = "timeout"
    /\ minutesRead = 20
    /\ refresh_minutes(data) = 1
    /\ elapsed = 20 * SecondsPerMinute

\* The worker has made its mode decision and has not yet returned to the
\* while of scheduler.py:33.
Decided ==
    {"decide", "rot_iter", "rot_next", "render", "rendering", "interval",
     "wait", "blocked", "clear"}

\* C11: the configuration is loaded exactly once per iteration of the while
\* loop, that is once per single-mode render-and-wait and once per rotation
\* pass: from the mode decision to the return to the while, through every
\* render and dwell of the pass, exactly one load has been made.
C11_OneLoadPerDecision ==
    /\ pc \in Decided => loads = 1
    /\ pc \in {"loop_check", "load"} => loads = 0

\* C11 witness: the worker dwells on the third entry of a pass although the
\* file now holds another rotation list: a reload would have changed the
\* list, and none was made.
C11_Witness ==
    /\ InPass
    /\ pc = "blocked"
    /\ idx = 3
    /\ loads = 1
    /\ ~LoadRaises(file)
    /\ rotation(load(data, file)) # entries

\* C12: every wait has a strictly positive timeout.
C12_WaitTimeoutPositive == pc \in {"wait", "blocked"} => timeout > 0

\* C13: a rotation pass runs only over a list of more than one entry, and
\* its waits are the entries' durations; single-module mode waits the
\* refresh interval.
C13_RotationIffMoreThanOneEntry ==
    /\ InPass => Len(entries) > 1
    /\ (InPass /\ pc \in {"wait", "blocked"}) =>
          timeout = EntryDuration(entries[idx]) * SecondsPerMinute
    /\ (mode = "single" /\ pc \in {"wait", "blocked"}) =>
          /\ timeout = minutesRead * SecondsPerMinute
          /\ entries = <<>>

\* The operations of each call of a trace, in order.
Ops(trace) == [k \in 1..Len(trace) |-> trace[k].op]

\* The calls of a trace that went to the display.
SinkOps == {"init", "show", "sleep"}
SinkCalls(trace) == SelectSeq(trace, LAMBDA c : c.op \in SinkOps)

\* The render cycle of a render_and_display call is over: it has returned
\* (the worker computes its wait next) or raised.
CycleOver == pc \in {"interval", "crashed"}

\* C14: for a module name the registry lacks, no provider's render or
\* default_settings is called and no settings are resolved; when
\* render_and_display returns it has made exactly the calls init,
\* show(error bitmap), sleep, and when it does not return a display call
\* raised.
C14_UnknownModuleShowsError ==
    (pc \in {"rendering", "interval", "crashed"}
        /\ module_name \notin MODULE_REGISTRY) =>
        /\ \A k \in 1..Len(calls) :
              calls[k].op \notin {"render", "default_settings"}
        /\ pc = "rendering" => settings = EmptyDict
        /\ pc = "interval" =>
              /\ Ops(calls) = <<"init", "show", "sleep">>
              /\ calls[2].arg = "error"
        /\ pc = "crashed" =>
              /\ Failed(calls)
              /\ calls[Len(calls)].op \in SinkOps

\* C14 witness: render_and_display has returned for the unregistered name
\* "weather" after three calls.
C14_Witness ==
    /\ pc = "interval"
    /\ module_name = "weather"
    /\ Len(calls) = 3

\* Keys the renderer adds to the settings (renderer.py:26-28).
InjectedKeys == {"_timezone", "_habitica_settings"}

\* A settings dict without the injected keys.
ProviderKeys(s) == [k \in (DOMAIN s) \ InjectedKeys |-> s[k]]

\* provider.render is running for a registered module.
RenderingKnown == pc = "rendering" /\ module_name \in MODULE_REGISTRY

\* C15 as stated: when the stored settings of the module are empty, the
\* settings passed to provider.render equal default_settings().
C15_DefaultsPassedAsTheyAre ==
    (RenderingKnown /\ DOMAIN module_settings(data, module_name) = {}) =>
        settings = DefaultSettings(module_name)

\* C15, amended: when the stored settings are empty, default_settings() is
\* called and the settings passed to provider.render are its result plus the
\* injected keys (_timezone always, _habitica_settings for tasks); when they
\* are not empty, default_settings() is not called and the stored settings
\* are passed, with the injected keys.
C15_DefaultsPlusInjected ==
    RenderingKnown =>
        /\ "_timezone" \in DOMAIN settings
        /\ ("_habitica_settings" \in DOMAIN settings) <=> module_name = "tasks"
        /\ IF DOMAIN module_settings(data, module_name) = {}
           THEN /\ ProviderKeys(settings) = DefaultSettings(module_name)
                /\ Ops(calls) = <<"default_settings">>
           ELSE /\ ProviderKeys(settings) =
                      ProviderKeys(module_settings(data, module_name))
                /\ calls = <<>>

\* C15 witness: tasks, which has no stored settings, is being rendered with
\* its defaults and both injected keys.
C15_Witness ==
    /\ RenderingKnown
    /\ module_name = "tasks"
    /\ DOMAIN module_settings(data, "tasks") = {}
    /\ DOMAIN settings = DOMAIN DefaultSettings("tasks") \cup InjectedKeys

\* Every init() that returned is followed by a sleep() that returned, with no
\* other init() in between.
ScopedInitSleep(trace) ==
    \A i \in 1..Len(trace) :
        (trace[i].op = "init" /\ trace[i].ok) =>
            \E j \in (i + 1)..Len(trace) :
                /\ trace[j].op = "sleep"
                /\ trace[j].ok
                /\ \A k \in (i + 1)..(j - 1) : trace[k].op # "init"

\* C16: in every render cycle, each init() of the display is followed by a
\* sleep() before the next init() and before render_and_display is over.
C16_EveryInitIsSlept == CycleOver => ScopedInitSleep(calls)

\* provider.render was called and raised.
ProviderFailed(trace) ==
    \E k \in 1..Len(trace) : trace[k].op = "render" /\ ~trace[k].ok

\* C17: when provider.render raises, render_and_display calls the display
\* at most three times, init, show(error bitmap), sleep in that order; it
\* returns when those calls return, and if it raises, the exception is that
\* of a display call, not the provider's.
C17_ProviderFailureAbsorbed ==
    (CycleOver /\ ProviderFailed(calls)) =>
        /\ pc = "interval" =>
              /\ Ops(SinkCalls(calls)) = <<"init", "show", "sleep">>
              /\ SinkCalls(calls)[2].arg = "error"
        /\ pc = "crashed" =>
              /\ calls[Len(calls)].op \in SinkOps
              /\ Len(SinkCalls(calls)) <= 3

\* C17 witness: render_and_display has returned although tasks' render
\* raised.
C17_Witness ==
    /\ pc = "interval"
    /\ module_name = "tasks"
    /\ ProviderFailed(calls)

\* C18: a display call that raises during a render cycle does not end the
\* worker.
C18_SinkFailureKeepsWorkerAlive ==
    ~(/\ pc = "crashed"
      /\ \E k \in 1..Len(calls) : calls[k].op \in SinkOps /\ ~calls[k].ok)

\* C19: a configuration file that cannot be read at a reload does not end
\* the worker.
C19_BadConfigKeepsWorkerAlive == pc # "load_failed"

\* A trace shows the error bitmap on the display.
ShowsErrorBitmap(trace) ==
    \E k \in 1..Len(trace) : trace[k].op = "show" /\ trace[k].arg = "error"

\* C20: a preview passes provider.render the settings the scheduled path
\* would pass for the same module and configuration, and for every module
\* name and outcome of provider.render a preview shows the error bitmap
\* exactly when the scheduled path, with a working display, shows it.
C20_PreviewLikeScheduled ==
    /\ [][(preview.at = "idle" /\ preview'.at = "rendering") =>
             preview'.settings = ResolveSettings(data, preview'.name)]_vars
    /\ [](\A name \in PreviewNames, providerOk \in BOOLEAN :
             LET known == name \in MODULE_REGISTRY
                 before == ResolutionCalls(data, name)
             IN  ShowsErrorBitmap(preview_module(known, before, providerOk))
                 = ShowsErrorBitmap(render_and_display(known, before,
                                                       providerOk, NoFault)))

\* The worker thread has ended: it left the while (scheduler.py:33) or an
\* exception ended it.
ThreadOver == {"exited", OnRenderError, OnLoadError}

\* C21: the lifecycle is not started, running, stopped, in that order, and
\* stopped is terminal: the worker leaves the while only with the stop signal
\* set, the stop signal once set stays set, and once the thread has ended no
\* ForceRefresh() or Stop() makes it run or render again.
C21_StoppedIsTerminal ==
    /\ [](pc = "exited" => stop_event)
    /\ [][stop_event => (stop_event' = TRUE)]_vars
    /\ [][(pc \in ThreadOver) => (pc' = pc)]_vars
    /\ [][pc' = "not_started" => pc = "not_started"]_vars
    /\ [][pc = "not_started" => pc' \in {"not_started", "loop_check"}]_vars

\* C21 witness: the worker has exited on the stop signal and a ForceRefresh()
\* is pending on the ended thread.
C21_Witness ==
    /\ pc = "exited"
    /\ stop_event
    /\ force_event
    /\ callsPending = MaxPending

\* C22: a rotation pass keeps the list it started with: no step inside the
\* pass changes the list iterated, whatever is written to the configuration,
\* every render of the pass is of the module of the current entry of that
\* list, and every dwell lasts that entry's duration.
C22_PassKeepsItsList ==
    /\ [][(InPass /\ InPass') => (entries' = entries)]_vars
    /\ []((InPass /\ pc = "rendering") =>
             module_name = EntryModule(entries[idx]))
    /\ []((InPass /\ pc \in {"wait", "blocked"}) =>
             timeout = EntryDuration(entries[idx]) * SecondsPerMinute)
    /\ []((InPass /\ pc = "blocked") => elapsed <= timeout)

\* C22 witness: the third entry of the list the pass began with is being
\* rendered after the configured list was replaced by a one-entry list during
\* the dwell of the second entry.
C22_Witness ==
    /\ InPass
    /\ pc = "rendering"
    /\ idx = 3
    /\ Len(entries) = 3
    /\ module_name = "tasks"
    /\ rotation(data) = <<Entry("photos", 5)>>
    /\ elapsed = 20 * SecondsPerMinute

\* The render in progress is the first after a rotation entry's dwell ran
\* its full time and the for loop went on to find the list exhausted.
AfterFullPass ==
    /\ pc = "rendering"
    /\ wake = "timeout"
    /\ wokeAt > 0
    /\ (mode = "single" \/ idx = 1)

\* C23: the first render after the last entry's full dwell follows exactly
\* one reload; in rotation mode it is entry 0 of a fresh pass over a list of
\* more than one entry, and a list of at most one entry is rendered in
\* single-module mode.
C23_FreshPassAfterFullDwell ==
    AfterFullPass =>
        /\ loads = 1
        /\ mode = "rotation" =>
              /\ Len(entries) > 1
              /\ module_name = EntryModule(entries[1])
              /\ passLog = <<module_name>>
        /\ mode = "single" => entries = <<>>

\* The current entry of the rotation pass names a module the registry lacks.
UnknownEntry ==
    /\ InPass
    /\ idx \in 1..Len(entries)
    /\ EntryModule(entries[idx]) \notin MODULE_REGISTRY

\* C24: a rotation entry whose module the registry lacks is scheduled like
\* any other: the render callback is called with its name; when the callback
\* returns the error bitmap has been shown and no provider was called; the
\* dwell is the entry's duration, it runs its full time, and the pass then
\* goes on to the next entry of the same list.  The callback fails to return
\* only when a call of the display raised.
C24_UnknownEntryKeepsSchedule ==
    /\ [][(UnknownEntry /\ pc = "render" /\ pc' # pc) =>
             (pc' = "rendering" /\ module_name' = EntryModule(entries[idx]))]_vars
    /\ [][(UnknownEntry /\ pc = "rendering" /\ pc' # pc) =>
             \/ pc' = "interval"
             \/ /\ pc' = OnRenderError
                /\ Failed(calls')
                /\ calls'[Len(calls')].op \in SinkOps]_vars
    /\ []((UnknownEntry /\ pc = "interval") =>
             /\ ShowsErrorBitmap(calls)
             /\ Ops(calls) = <<"init", "show", "sleep">>)
    /\ []((UnknownEntry /\ pc \in {"wait", "blocked"}) =>
             timeout = EntryDuration(entries[idx]) * SecondsPerMinute)
    /\ [][(UnknownEntry /\ pc = "blocked" /\ pc' # pc) =>
             /\ elapsed = EntryDuration(entries[idx]) * SecondsPerMinute
             /\ pc' = "rot_next"
             /\ idx' = idx + 1
             /\ entries' = entries]_vars

\* C24 witness: the entry after the unregistered "weather" is being rendered,
\* after weather's full dwell of one minute.
C24_Witness ==
    /\ InPass
    /\ pc = "rendering"
    /\ idx = 2
    /\ EntryModule(entries[1]) = "weather"
    /\ module_name = "calendar"
    /\ wake = "timeout"
    /\ elapsed = EntryDuration(entries[1]) * SecondsPerMinute

\* C25: after Stop() at most one render callback invocation begins, and the
\* worker thread then ends.
C25_OneRenderAfterStop ==
    /\ [](rendersAfterStop <= 1)
    /\ ((stop_event /\ pc # "not_started") ~> pc \in ThreadOver)

\* C25 witness: the worker has exited from rotation mode after beginning one
\* render with the stop signal already set.
C25_Witness ==
    /\ pc = "exited"
    /\ mode = "rotation"
    /\ rendersAfterStop = 1

\* Positions between the end of a wait and the next call of the render
\* callback.
BeforeRender ==
    {"clear", "loop_check", "load", "decide", "rot_iter", "rot_next", "render"}

\* A ForceRefresh() made part of the way into a wait has ended that wait,
\* and the render callback has not been called since.
RenderOwed == wake = "force" /\ forcedAt > 0 /\ pc \in BeforeRender

\* C26: no force request is lost.  A raised force flag stops the clock of
\* the wait in progress and makes the next wait return at once, and, stop
\* not being requested, the worker that a ForceRefresh() woke does not end
\* before it has called the render callback.
C26_NoForceLost ==
    /\ [][(pc = "blocked" /\ force_event) => (elapsed' = elapsed)]_vars
    /\ [][(pc = "wait" /\ force_event /\ pc' # pc) => (pc' = "clear")]_vars
    /\ [][(RenderOwed /\ ~stop_event /\ ~stop_event') =>
             (pc' \notin ThreadOver)]_vars

\* Positions of the worker from the end of a wait to the stop check that
\* follows it, and past that check when it found the stop signal set.
AfterWait == {"clear", "rot_next", "loop_check", "exited"}

\* C27: stop takes precedence over force.  When a wait has ended and the
\* stop signal is set, the worker goes to the stop check and out of the loop
\* whether the force flag is raised or not: it does not reload and does not
\* call the render callback again.
C27_StopBeforeForce ==
    [][(stop_event /\ pc \in AfterWait) =>
          /\ pc' \in AfterWait
          /\ pc = "clear" => pc' \in {"clear", "loop_check"}
          /\ pc = "loop_check" => pc' \in {"loop_check", "exited"}
          /\ rendersAfterStop' = rendersAfterStop]_vars

\* C27 witness: in rotation mode a wait was ended by the force flag with the
\* stop signal set during that wait; the flag is cleared and the worker is
\* at the stop check, having rendered nothing since.
C27_Witness ==
    /\ pc = "loop_check"
    /\ mode = "rotation"
    /\ stop_event
    /\ stopDuringWait
    /\ wake = "force"
    /\ rendersAfterStop = 0

\* No stored module settings of the configuration d hold a key the renderer
\* injects.
NothingInjected(d) ==
    LET modules == Get(d, "modules", EmptyDict)
    IN  \A name \in DOMAIN modules : (DOMAIN modules[name]) \cap InjectedKeys = {}

\* C28: render_and_display leaves the configuration as it found it: entering
\* it and resolving the settings changes nothing in Config._data, and neither
\* the configuration in memory nor config.json ever holds an injected key.
C28_RenderLeavesConfig ==
    /\ [][(pc = "render" /\ pc' = "rendering") => (data' = data)]_vars
    /\ [](NothingInjected(data) /\ NothingInjected(file.content))

\* The configuration d holds every value POST /settings sets from the form.
HoldsForm(d, form) ==
    /\ refresh_minutes(d) = form.refresh_minutes
    /\ rotation(d) = form.rotation
    /\ form.rotation # <<>> => active_module(d) = form.rotation[1].module
    /\ timezone(d) = form.timezone

\* C29: a worker reload between the set(...) calls and save() of a
\* POST /settings loses nothing: when save() has written the file, the
\* configuration in memory and config.json both hold every value of the form.
C29_UpdateNotLost ==
    [][(ui.at = "dump" /\ ui'.at = "idle") =>
          \A form \in SettingsForms :
             HoldsForm(data', form) /\ HoldsForm(file'.content, form)]_vars

\* C30: the rotation pass iterates the list on which rotation was decided:
\* the list the for loop takes when the pass starts has more than one entry,
\* and every entry the pass goes on to render is an entry of such a list.
C30_PassOverDecidedList ==
    /\ [][(pc = "rot_iter" /\ pc' = "rot_next") => (Len(entries') > 1)]_vars
    /\ [][(mode = "rotation" /\ pc = "rot_next" /\ pc' = "render") =>
             (Len(entries) > 1 /\ idx \in 1..Len(entries))]_vars

====
